---- MODULE Spec2Model ----
(***************************************************************************)
(* Model of src/negot.js: the Negot class (constructor, put, negotiate).  *)
(*                                                                         *)
(* Strings are finite sequences of atoms.  An atom is either one of the   *)
(* separator characters the code splits or trims on (",", ";", " ") or a  *)
(* run of characters free of them ("text/html", "*", ...).                *)
(***************************************************************************)
EXTENDS Integers, Sequences, FiniteSets, TLC

VARIABLES
    ctor,            \* progress of the constructor call: "pending", "threw", "done"
    mimeSignatures,  \* the private Map #mimeSignatures: key |-> generator
    lastPut,         \* the latest put call made by the host, with its outcome
    calls            \* the negotiate calls made by the host, one record each

vars == <<ctor, mimeSignatures, lastPut, calls>>

\* ---------------------------------------------------------------- bounds
MaxCalls == 1    \* negotiate calls made by the host
MaxLen == 3      \* atoms in a key of the exhaustive key set

Calls == 1..MaxCalls

\* --------------------------------------------------------------- strings
Wildcard == <<"*">>
DefaultAccept == <<"application/json">>

\* JavaScript values handed to put as mimeType.
Str(s) == [type |-> "string", chars |-> s]
NotAString == [type |-> "number", chars |-> <<>>]

MimeTypeArgs ==
    { NotAString, Str(<<>>), Str(Wildcard),
      Str(<<"text/html">>), Str(<<"application/json">>) }

\* Values handed to put as generatorFn: two host functions and a non-callable.
HostGenerators == {"g1", "g2"}
WildcardGenerator == "wildcardDefault"
GeneratorArgs == HostGenerators \cup {"notCallable"}
TypeofFn(f) == IF f \in HostGenerators \cup {WildcardGenerator}
               THEN "function" ELSE "object"
NoFn == "undefined"

\* What request.headers.get('Accept') yields: null or a string.
NoHeader == [has |-> FALSE, chars |-> <<>>]
Header(s) == [has |-> TRUE, chars |-> s]
AcceptValues ==
    { NoHeader, Header(Wildcard),
      Header(<<"text/html">>), Header(<<"application/json">>),
      Header(<<"text/html", ";", "q=0.9", ",", " ", "application/json">>) }
Requests == [accept : AcceptValues]

\* Every non-empty string of at most MaxLen atoms; put accepts each as a key.
Atoms == {"text/html", "application/json", ",", ";", " "}
Strings == UNION { [1..n -> Atoms] : n \in 1..MaxLen }

\* String.prototype.split(sep)[0]: the part before the first sep.
FirstIndexOf(s, ch) ==
    IF \E i \in 1..Len(s) : s[i] = ch
    THEN CHOOSE i \in 1..Len(s) : s[i] = ch /\ \A j \in 1..(i - 1) : s[j] # ch
    ELSE 0
SplitFirst(s, ch) ==
    IF FirstIndexOf(s, ch) = 0 THEN s ELSE SubSeq(s, 1, FirstIndexOf(s, ch) - 1)

\* String.prototype.trim.
RECURSIVE TrimStart(_)
TrimStart(s) == IF s # <<>> /\ Head(s) = " " THEN TrimStart(Tail(s)) ELSE s
RECURSIVE TrimEnd(_)
TrimEnd(s) == IF s # <<>> /\ s[Len(s)] = " "
              THEN TrimEnd(SubSeq(s, 1, Len(s) - 1)) ELSE s
Trim(s) == TrimEnd(TrimStart(s))

\* Line 69 with the wildcard as the default: a request without an Accept
\* header states no preference at all.
AcceptHeaderDefaultsToWildcard(request) ==
    IF request.accept.has /\ request.accept.chars # <<>>
    THEN request.accept.chars ELSE Wildcard

\* negotiate, line 69: request.headers.get('Accept') || 'application/json'
AcceptHeader(request) ==
    IF request.accept.has /\ request.accept.chars # <<>>
    THEN request.accept.chars ELSE DefaultAccept

\* Line 71 without its final split(';')[0]: the parameters stay on.
PreferredMimeTypeKeepsParameters(acceptHeader) ==
    Trim(SplitFirst(acceptHeader, ","))

\* negotiate, line 71: acceptHeader.split(',')[0].trim().split(';')[0]
PreferredMimeType(acceptHeader) ==
    SplitFirst(Trim(SplitFirst(acceptHeader, ",")), ";")

\* ------------------------------------------------------------------- Map
MapGet(m, k) == IF k \in DOMAIN m THEN m[k] ELSE NoFn
\* A Map whose set keeps the entry a key already has.
MapSetKeepsFirst(m, k, v) ==
    [x \in DOMAIN m \cup {k} |-> IF x \in DOMAIN m THEN m[x] ELSE v]
MapSet(m, k, v) == [x \in DOMAIN m \cup {k} |-> IF x = k THEN v ELSE m[x]]
EmptyMap == [x \in {} |-> NoFn]

\* ------------------------------------------------------------- responses
Value(kind, status, statusText, headers, body, bodyUsed) ==
    [kind |-> kind, status |-> status, statusText |-> statusText,
     headers |-> headers, body |-> body, bodyUsed |-> bodyUsed]
Undefined == Value("undefined", 0, "", "", "", FALSE)
NonResponse == Value("object", 0, "", "", "", FALSE)
JsonHeaders == "Content-Type: application/json"
JsonResponse(status, body) == Value("Response", status, "", JsonHeaders, body, FALSE)

\* Responses a host generator may produce.  The body of a response may have
\* been read already; negotiate touches the body only at line 115, when the
\* status is not 200.
Statuses == {200, 404}
HostResponse(status, bodyUsed) ==
    Value("Response", status, "", "Content-Type: text/html", "payload", bodyUsed)
HostResponses ==
    { HostResponse(s, FALSE) : s \in Statuses } \cup
    { HostResponse(s, TRUE) : s \in Statuses \ {200} }
\* What the value or promise returned by a host generator may fulfil with.
Fulfilments == HostResponses \cup {Undefined, NonResponse}

IsResponse(v) == v.kind = "Response"

\* ----------------------------------------------------------------- calls
IdleCall ==
    [pc |-> "idle", request |-> [accept |-> NoHeader],
     preferredMimeType |-> <<>>, signatureFn |-> NoFn,
     awaiting |-> "none", invoked |-> <<>>, settled |-> <<>>,
     fellBack |-> FALSE, generatedResponse |-> Undefined,
     result |-> Undefined]

\* No put call made yet.  prior is the entry that a put call which stored one
\* found under its key.
NoPut == [called |-> FALSE, mimeType |-> Str(<<>>), generatorFn |-> NoFn,
          threw |-> FALSE, prior |-> NoFn]

Init ==
    /\ ctor = "pending"
    /\ mimeSignatures = EmptyMap
    /\ lastPut = NoPut
    /\ calls = [c \in Calls |-> IdleCall]

\* ---------------------------------------------------------------- put
\* put, lines 47-52: the two argument checks; TRUE when put throws.
PutThrows(mimeType, generatorFn) ==
    \/ mimeType.type # "string"
    \/ mimeType.chars = <<>>
    \/ mimeType.chars = Wildcard
    \/ TypeofFn(generatorFn) # "function"

\* put with line 53 moved above the check of generatorFn (line 50).
PutMapStoresFirst(m, mimeType, generatorFn) ==
    IF mimeType.type # "string" \/ mimeType.chars = <<>>
       \/ mimeType.chars = Wildcard
    THEN m
    ELSE MapSet(m, mimeType.chars, generatorFn)

\* put, lines 46-55: the Map after the call.
PutMap(m, mimeType, generatorFn) ==
    IF PutThrows(mimeType, generatorFn) THEN m
    ELSE MapSet(m, mimeType.chars, generatorFn)

PutRecord(m, mimeType, generatorFn) ==
    [called |-> TRUE, mimeType |-> mimeType, generatorFn |-> generatorFn,
     threw |-> PutThrows(mimeType, generatorFn),
     prior |-> IF PutThrows(mimeType, generatorFn) THEN NoFn
               ELSE MapGet(m, mimeType.chars)]

\* new Negot(), lines 17 and 23-34.  Line 27 calls this.put('*', fn), a method
\* looked up on the instance at run time.  Negot.prototype.put rejects '*', so
\* the constructor throws and `new` hands no instance to the host.  Only a
\* host class that extends Negot and answers put('*', ...) itself lets the
\* constructor return; #mimeSignatures is private to Negot, so such a class
\* cannot store the entry and the Map is whatever Negot.prototype.put left.
PutTargets == {"Negot.prototype.put", "hostOverride"}
Construct ==
    /\ ctor = "pending"
    /\ \E target \in PutTargets :
         IF target = "Negot.prototype.put"
         THEN /\ ctor' = IF PutThrows(Str(Wildcard), WildcardGenerator)
                         THEN "threw" ELSE "done"
              /\ mimeSignatures' =
                    PutMap(mimeSignatures, Str(Wildcard), WildcardGenerator)
         ELSE /\ ctor' = "done"
              /\ mimeSignatures' = mimeSignatures
    /\ UNCHANGED <<lastPut, calls>>

\* put(mimeType, generatorFn) called by the host on a constructed instance,
\* with arguments drawn from the given sets.
PutWith(mimeTypes, generatorFns) ==
    /\ ctor = "done"
    /\ \E mimeType \in mimeTypes, generatorFn \in generatorFns :
         /\ mimeSignatures' = PutMap(mimeSignatures, mimeType, generatorFn)
         /\ lastPut' = PutRecord(mimeSignatures, mimeType, generatorFn)
    /\ UNCHANGED <<ctor, calls>>

Put == PutWith(MimeTypeArgs, GeneratorArgs)

\* ----------------------------------------------------------- negotiate
\* A generator called with a request other than the one negotiate was given.
GeneratorArgumentOther(request) == [accept |-> NoHeader]

\* The argument a generator is called with, lines 78 and 98.
GeneratorArgument(request) == request

\* A call site that calls the generator once more than lines 78 and 98 do.
InvokeTwice(call, fn) ==
    [call EXCEPT !.invoked = @ \o <<[fn |-> fn, arg |-> GeneratorArgument(call.request)],
                                    [fn |-> fn, arg |-> GeneratorArgument(call.request)]>>]

Invoke(call, fn) ==
    [call EXCEPT !.invoked = Append(@, [fn |-> fn, arg |-> GeneratorArgument(call.request)])]

\* The invoked generator has thrown ("threw"), or the promise it returned
\* has been rejected ("rejected") or fulfilled ("fulfilled").
Settle(call, how) ==
    [call EXCEPT !.awaiting = "none", !.settled = Append(@, how)]

Return(call, response) ==
    [call EXCEPT !.pc = "returned", !.result = response]

\* new Response(body, init), lines 115-119: the platform constructor throws a
\* TypeError when handed a body stream that was already read or is locked.
ResponseCtorThrows(candidate) == candidate.bodyUsed

ForcedResponse(candidate) ==
    Value("Response", 200, "OK (Forced by Negot)", candidate.headers,
          candidate.body, FALSE)

\* negotiate, lines 111-129.
Finalize(call) ==
    LET candidate == call.generatedResponse
    IN  IF IsResponse(candidate)
        THEN IF candidate.status # 200
             THEN IF ResponseCtorThrows(candidate)
                  THEN [call EXCEPT !.pc = "rejected"]
                  ELSE Return(call, ForcedResponse(candidate))
             ELSE Return(call, candidate)
        ELSE Return(call, JsonResponse(500, "error: cannot generate response"))

\* negotiate, lines 100-107: the catch block around the wildcard generator.
WildcardFault(call) ==
    Return(call, JsonResponse(500, "error: wildcard"))

\* How an invoked generator behaves: it throws before returning, or returns
\* a value or promise that settles later, or one that never settles.
Behaviours == {"throws", "settles", "hangs"}

\* negotiate, lines 94-109, entered with no Response from the preferred type.
Fallback(call, m, behaviour) ==
    LET c1 == [call EXCEPT !.fellBack = TRUE]
        fn == MapGet(m, Wildcard)
    IN  IF fn # NoFn
        THEN IF behaviour = "throws"
             THEN WildcardFault(Settle(Invoke(c1, fn), "threw"))
             ELSE [Invoke(c1, fn) EXCEPT !.pc = "awaitWildcard",
                                         !.awaiting = behaviour]
        ELSE Finalize(c1)

\* A catch block at lines 83-90 that logs and carries on to the fallback.
SignatureFaultFallsBack(call, m) == Fallback(call, m, "settles")

\* negotiate, lines 83-90: the catch block around the preferred generator.
SignatureFault(call, m) ==
    Return(call, JsonResponse(500, "error: signature"))

\* Lines 66-109 with the '*' lookup of line 95 made first, before the
\* generator of the preferred type has been tried.
StartWildcardFirst(call, m, request, behaviour) ==
    LET preferred == PreferredMimeType(AcceptHeader(request))
    IN  Fallback([call EXCEPT !.request = request,
                              !.preferredMimeType = preferred,
                              !.signatureFn = MapGet(m, preferred)],
                 m, behaviour)

\* negotiate, lines 66-78 (and on to 94-129 when no generator matches): the
\* synchronous part of the call, up to its first await.
Start(call, m, request, behaviour) ==
    LET preferred == PreferredMimeType(AcceptHeader(request))
        fn == MapGet(m, preferred)
        c1 == [call EXCEPT !.request = request,
                           !.preferredMimeType = preferred,
                           !.signatureFn = fn]
    IN  IF fn # NoFn
        THEN IF behaviour = "throws"
             THEN SignatureFault(Settle(Invoke(c1, fn), "threw"), m)
             ELSE [Invoke(c1, fn) EXCEPT !.pc = "awaitSignature",
                                         !.awaiting = behaviour]
        ELSE Fallback(c1, m, behaviour)

\* The builtin generator of lines 27-33 never throws and returns at once.
\* A generator that is not there has no behaviour to choose.
BehavesAs(fn, behaviour) ==
    fn \in {WildcardGenerator, NoFn} => behaviour = "settles"
SettlesWith(fn, rejected, settlement) ==
    fn = WildcardGenerator =>
        ~rejected /\ settlement = JsonResponse(200, "{data: null}")

\* A negotiate that uses an entry up: the generator it found for the
\* preferred type is taken out of the Map.
NegotiateWithConsuming(c, requests) ==
    /\ ctor = "done"
    /\ calls[c].pc = "idle"
    /\ \E request \in requests, behaviour \in Behaviours :
         /\ BehavesAs(MapGet(mimeSignatures,
                         PreferredMimeType(AcceptHeader(request))), behaviour)
         /\ calls' = [calls EXCEPT ![c] =
                 Start(IdleCall, mimeSignatures, request, behaviour)]
         /\ mimeSignatures' =
                 [k \in DOMAIN mimeSignatures \
                           {PreferredMimeType(AcceptHeader(request))}
                     |-> mimeSignatures[k]]
    /\ UNCHANGED <<ctor, lastPut>>

NegotiateWith(c, requests) ==
    /\ ctor = "done"
    /\ calls[c].pc = "idle"
    /\ \E request \in requests, behaviour \in Behaviours :
         /\ BehavesAs(IF MapGet(mimeSignatures,
                         PreferredMimeType(AcceptHeader(request))) # NoFn
                      THEN MapGet(mimeSignatures,
                         PreferredMimeType(AcceptHeader(request)))
                      ELSE MapGet(mimeSignatures, Wildcard), behaviour)
         /\ calls' = [calls EXCEPT ![c] =
                 Start(IdleCall, mimeSignatures, request, behaviour)]
    /\ UNCHANGED <<ctor, mimeSignatures, lastPut>>

\* negotiate(request) called by the host on a constructed instance.
Negotiate(c) == NegotiateWith(c, Requests)

\* negotiate(request) with a registered key as the request's Accept header.
NegotiateKey(c) ==
    NegotiateWith(c, {[accept |-> Header(k)] : k \in DOMAIN mimeSignatures})

\* A continuation that reads the Map again after the await of line 78 and,
\* finding another generator under the preferred type, calls that one too.
ResumedLooksUpAgain(call, m, rejected, settlement, behaviour) ==
    LET c1 == Settle(call, IF rejected THEN "rejected" ELSE "fulfilled")
        fn == MapGet(m, call.preferredMimeType)
    IN  IF call.pc = "awaitSignature"
        THEN IF fn # NoFn /\ fn # call.signatureFn
             THEN [Invoke(call, fn) EXCEPT !.signatureFn = fn]
             ELSE IF rejected THEN SignatureFault(c1, m)
             ELSE IF IsResponse(settlement)
                  THEN Finalize([c1 EXCEPT !.generatedResponse = settlement])
                  ELSE Fallback(c1, m, behaviour)
        ELSE IF rejected THEN WildcardFault(c1)
             ELSE Finalize([c1 EXCEPT !.generatedResponse = settlement])

\* The awaited promise of line 78 or line 98 settles and the call runs on to
\* its next await or to its return.
Resumed(call, m, rejected, settlement, behaviour) ==
    LET c1 == Settle(call, IF rejected THEN "rejected" ELSE "fulfilled")
    IN  IF call.pc = "awaitSignature"
        THEN IF rejected THEN SignatureFault(c1, m)
             ELSE IF IsResponse(settlement)
                  THEN Finalize([c1 EXCEPT !.generatedResponse = settlement])
                  ELSE Fallback(c1, m, behaviour)
        ELSE IF rejected THEN WildcardFault(c1)
             ELSE Finalize([c1 EXCEPT !.generatedResponse = settlement])

\* A negotiate that gives up on a promise that has not settled and returns
\* an error response in its place.
ResumeOrTimeOut(c) ==
    /\ calls[c].pc \in {"awaitSignature", "awaitWildcard"}
    /\ calls' = [calls EXCEPT ![c] =
            Return([@ EXCEPT !.awaiting = "none"],
                   JsonResponse(500, "error: timeout"))]
    /\ UNCHANGED <<ctor, mimeSignatures, lastPut>>

Resume(c) ==
    /\ calls[c].pc \in {"awaitSignature", "awaitWildcard"}
    /\ calls[c].awaiting = "settles"
    /\ \E rejected \in BOOLEAN, settlement \in Fulfilments,
          behaviour \in Behaviours :
         /\ rejected => settlement = Undefined
         /\ SettlesWith(calls[c].invoked[Len(calls[c].invoked)].fn,
                        rejected, settlement)
         /\ BehavesAs(MapGet(mimeSignatures, Wildcard), behaviour)
         /\ calls' = [calls EXCEPT ![c] =
                 Resumed(calls[c], mimeSignatures, rejected, settlement, behaviour)]
    /\ UNCHANGED <<ctor, mimeSignatures, lastPut>>

Next ==
    \/ Construct
    \/ Put
    \/ \E c \in Calls : Negotiate(c)
    \/ \E c \in Calls : Resume(c)

Spec == Init /\ [][Next]_vars

\* The instance after construction and one put(k, g), for every key k of
\* Strings, resolving requests whose Accept header is that key.
InitKeys ==
    \E k \in Strings, g \in HostGenerators :
        /\ ctor = "done"
        /\ mimeSignatures = PutMap(EmptyMap, Str(k), g)
        /\ lastPut = PutRecord(EmptyMap, Str(k), g)
        /\ calls = [c \in Calls |-> IdleCall]

NextKeys ==
    \/ \E c \in Calls : NegotiateKey(c)
    \/ \E c \in Calls : Resume(c)

SpecKeys == InitKeys /\ [][NextKeys]_vars

\* Several negotiate calls in flight on one instance, interleaved with each
\* other and with put calls at their await points: one more call than Spec
\* has, all preferring text/html, and put calls that register and replace
\* the generator of text/html.
ConcurrentCalls == 1..(MaxCalls + 1)
ConcurrentMimeTypes == {Str(<<"text/html">>)}
ConcurrentRequests == {[accept |-> Header(<<"text/html">>)]}

InitConcurrent ==
    /\ ctor = "pending"
    /\ mimeSignatures = EmptyMap
    /\ lastPut = NoPut
    /\ calls = [c \in ConcurrentCalls |-> IdleCall]

PutConcurrent == PutWith(ConcurrentMimeTypes, HostGenerators)
NegotiateConcurrent(c) == NegotiateWith(c, ConcurrentRequests)

NextConcurrent ==
    \/ Construct
    \/ PutConcurrent
    \/ \E c \in ConcurrentCalls : NegotiateConcurrent(c)
    \/ \E c \in ConcurrentCalls : Resume(c)

SpecConcurrent == InitConcurrent /\ [][NextConcurrent]_vars

\* ================================================================ claims
Finished(c) == calls[c].pc \in {"returned", "rejected"}
Started(c) == calls[c].pc = "idle" /\ calls'[c].pc # "idle"
Faulted(c) ==
    \E i \in 1..Len(calls[c].settled) :
        calls[c].settled[i] \in {"threw", "rejected"}

\* C1: once the constructor has run, the dispatcher exists and its registry
\* maps '*' to the built-in default generator, whatever put calls follow.
C1_WildcardAlwaysRegistered ==
    ctor # "pending" =>
        /\ ctor = "done"
        /\ MapGet(mimeSignatures, Wildcard) = WildcardGenerator

\* C2: every negotiate call returns status 200, except that it returns 500
\* exactly when a generator it invoked threw or rejected.
C2_Status200UnlessGeneratorFault ==
    \A c \in Calls :
        Finished(c) =>
            /\ calls[c].pc = "returned"
            /\ calls[c].result.status \in {200, 500}
            /\ calls[c].result.status = 500 <=> Faulted(c)

\* C3: negotiate never raises to its caller, and what it returns is a
\* Response, whatever the invoked generators do.
C3_NeverRaises ==
    \A c \in Calls :
        /\ calls[c].pc # "rejected"
        /\ calls[c].pc = "returned" => IsResponse(calls[c].result)

\* C4: a put call with an empty, non-string or '*' mimeType, or with a
\* generatorFn that is not callable, throws and leaves the registry as it was.
C4_InvalidArguments(put) ==
    \/ put.mimeType \in {NotAString, Str(<<>>), Str(Wildcard)}
    \/ put.generatorFn = "notCallable"
C5_InvokesRegistered(c, k) ==
    /\ calls'[c].invoked # <<>>
    /\ calls'[c].invoked[1] =
          [fn |-> mimeSignatures[k], arg |-> calls'[c].request]
C5_EveryKeyReachesItsGenerator ==
    [][\A c \in Calls :
          (/\ Started(c)
           /\ calls'[c].request.accept.has
           /\ calls'[c].request.accept.chars \in DOMAIN mimeSignatures)
          => C5_InvokesRegistered(c, calls'[c].request.accept.chars)]_vars
\* C5 as amended: the same for every registered key that holds no ',' and no
\* ';' and neither starts nor ends with whitespace.
C5_Clean(k) ==
    /\ k # <<>>
    /\ \A i \in 1..Len(k) : k[i] \notin {",", ";"}
    /\ k[1] # " "
    /\ k[Len(k)] # " "
C5_CleanKeyReachesItsGenerator ==
    [][\A c \in Calls :
          (/\ Started(c)
           /\ calls'[c].request.accept.has
           /\ calls'[c].request.accept.chars \in DOMAIN mimeSignatures
           /\ C5_Clean(calls'[c].request.accept.chars))
          => C5_InvokesRegistered(c, calls'[c].request.accept.chars)]_vars
C5_Witness ==
    \E c \in Calls :
        /\ calls[c].pc # "idle"
        /\ calls[c].request.accept.has
        /\ C5_Clean(calls[c].request.accept.chars)
        /\ calls[c].request.accept.chars \in DOMAIN mimeSignatures
        /\ calls[c].invoked # <<>>
        /\ calls[c].invoked[1].fn \in HostGenerators
        /\ calls[c].invoked[1].arg = calls[c].request

\* C6: a negotiate call that starts after put(k, g2) and prefers k invokes g2
\* and nothing else, whatever was registered under k before; once started, a
\* call invokes no further generator but the '*' entry.
C6_OnlyLatestGeneratorReachable ==
    [][\A c \in Calls :
          /\ (/\ Started(c)
               /\ lastPut.called /\ ~lastPut.threw
               /\ calls'[c].preferredMimeType = lastPut.mimeType.chars)
              => calls'[c].invoked =
                   <<[fn |-> lastPut.generatorFn, arg |-> calls'[c].request]>>
          /\ (/\ calls[c].pc # "idle"
               /\ calls'[c].invoked # calls[c].invoked)
              => /\ Len(calls'[c].invoked) = Len(calls[c].invoked) + 1
                 /\ calls'[c].invoked[Len(calls'[c].invoked)].fn =
                       MapGet(mimeSignatures, Wildcard)]_vars
\* g2 has replaced another generator under k and a call preferring k ran g2.
C6_Witness ==
    /\ lastPut.called /\ ~lastPut.threw
    /\ lastPut.prior \in HostGenerators \ {lastPut.generatorFn}
    /\ \E c \in Calls :
         /\ calls[c].pc # "idle"
         /\ calls[c].preferredMimeType = lastPut.mimeType.chars
         /\ calls[c].invoked # <<>>
         /\ calls[c].invoked[1].fn = lastPut.generatorFn

C8_FallbackReturnsDefaultBody ==
    \A c \in Calls :
        (Finished(c) /\ calls[c].signatureFn = NoFn)
        => /\ calls[c].invoked =
                <<[fn |-> WildcardGenerator, arg |-> calls[c].request]>>
           /\ calls[c].result = JsonResponse(200, "{data: null}")

\* C9: a candidate Response of status 200 is returned as it is; one of any
\* other status is returned with the same body and headers and status 200.
C9_FinalizationForces200 ==
    \A c \in Calls :
        (Finished(c) /\ IsResponse(calls[c].generatedResponse))
        => /\ calls[c].pc = "returned"
           /\ IsResponse(calls[c].result)
           /\ calls[c].result.status = 200
           /\ calls[c].result.body = calls[c].generatedResponse.body
           /\ calls[c].result.headers = calls[c].generatedResponse.headers
           /\ calls[c].generatedResponse.status = 200
                => calls[c].result = calls[c].generatedResponse

\* C10: for the header "text/html;q=0.9, application/json" the preferred type
\* is text/html, and the call invokes the generator registered under
\* text/html or, when there is none, no registered generator at all.
C10_Header == <<"text/html", ";", "q=0.9", ",", " ", "application/json">>
C10_OnlyFirstCandidateConsulted ==
    [][\A c \in Calls :
          (Started(c) /\ calls'[c].request.accept = Header(C10_Header))
          => /\ calls'[c].preferredMimeType = <<"text/html">>
             /\ calls'[c].invoked =
                  IF <<"text/html">> \in DOMAIN mimeSignatures
                  THEN <<[fn |-> mimeSignatures[<<"text/html">>],
                          arg |-> calls'[c].request]>>
                  ELSE <<>>]_vars
\* Only the later candidate has a generator, and the call invoked nothing.
C10_Witness ==
    \E c \in Calls :
        /\ calls[c].request.accept = Header(C10_Header)
        /\ Finished(c)
        /\ calls[c].invoked = <<>>
        /\ <<"application/json">> \in DOMAIN mimeSignatures
        /\ <<"text/html">> \notin DOMAIN mimeSignatures

\* C11: a call whose request has no Accept header takes, step by step, the
\* steps of a call whose request differs only in carrying the header
\* "application/json": under every registry it looks up the same key, invokes
\* the same generators in the same order and returns the same response.
C11_JsonRequest == [accept |-> Header(<<"application/json">>)]
C11_AsIfJson(call) ==
    [call EXCEPT !.request = C11_JsonRequest,
                 !.invoked = [i \in DOMAIN @ |->
                                 [@[i] EXCEPT !.arg = C11_JsonRequest]]]
C11_MissingHeaderMeansJson ==
    [][\A c \in Calls :
          (/\ calls'[c] # calls[c]
           /\ calls'[c].pc # "idle"
           /\ calls'[c].request.accept = NoHeader)
          => IF calls[c].pc = "idle"
             THEN \E behaviour \in Behaviours :
                     C11_AsIfJson(calls'[c]) =
                         Start(IdleCall, mimeSignatures, C11_JsonRequest,
                               behaviour)
             ELSE \E rejected \in BOOLEAN, settlement \in Fulfilments,
                     behaviour \in Behaviours :
                     C11_AsIfJson(calls'[c]) =
                         Resumed(C11_AsIfJson(calls[c]), mimeSignatures,
                                 rejected, settlement, behaviour)]_vars
\* A request without the header ran the generator of application/json while
\* text/html was registered too, and the call returned that generator's 200.
C11_Witness ==
    \E c \in Calls :
        /\ calls[c].request.accept = NoHeader
        /\ calls[c].pc = "returned"
        /\ calls[c].preferredMimeType = <<"application/json">>
        /\ <<"text/html">> \in DOMAIN mimeSignatures
        /\ calls[c].invoked # <<>>
        /\ calls[c].invoked[1].fn \in HostGenerators
        /\ calls[c].result = HostResponse(200, FALSE)

\* C12: a put of a callable under the wildcard '*' is accepted, and the
\* registry then maps '*' to that callable, the fallback of negotiate.
C12_WildcardPutInstallsFallback ==
    (/\ lastPut.called
     /\ lastPut.mimeType = Str(Wildcard)
     /\ TypeofFn(lastPut.generatorFn) = "function")
    => /\ ~lastPut.threw
       /\ MapGet(mimeSignatures, Wildcard) = lastPut.generatorFn

\* C13: when the generator of the preferred type is fulfilled with a value
\* that is no Response, the call goes on to invoke the '*' generator, and
\* what it returns is that generator's response with status 200, not a 500.
C13_UnproductiveMatchUsesWildcard ==
    \A c \in Calls :
        (/\ calls[c].signatureFn # NoFn
         /\ calls[c].settled # <<>>
         /\ calls[c].settled[1] = "fulfilled"
         /\ calls[c].fellBack)
        => /\ Len(calls[c].invoked) = 2
           /\ calls[c].invoked[2].fn = MapGet(mimeSignatures, Wildcard)
           /\ calls[c].invoked[2].fn # NoFn
           /\ Finished(c) =>
                /\ calls[c].pc = "returned"
                /\ calls[c].result.status = 200
                /\ calls[c].result.body = calls[c].generatedResponse.body

C15_Matched(c) == IF calls[c].signatureFn # NoFn THEN 1 ELSE 0
C16_FinalBranchNeverTaken ==
    \A c \in Calls :
        calls[c].pc = "returned" =>
            calls[c].result # JsonResponse(500, "error: cannot generate response")

\* C17: no step of a negotiate call changes the registry, which is at all
\* times what the put calls left; and a call that starts after other calls
\* have run (returned 200, fallen back, or ended in 500) starts exactly as
\* Start computes it from the request, the generator's behaviour and the
\* registry of that moment, so as it would have with no call before it.
C17_RegistryAsPutLeftIt ==
    IF lastPut.called /\ ~lastPut.threw
    THEN mimeSignatures =
            PutMap(EmptyMap, lastPut.mimeType, lastPut.generatorFn)
    ELSE mimeSignatures = EmptyMap
C17_NegotiateIsStateless ==
    [][/\ calls' # calls
          => /\ mimeSignatures' = mimeSignatures
             /\ lastPut' = lastPut
             /\ ctor' = ctor
       /\ C17_RegistryAsPutLeftIt'
       /\ \A c \in ConcurrentCalls :
             Started(c)
             => \E behaviour \in Behaviours :
                   calls'[c] = Start(IdleCall, mimeSignatures,
                                     calls'[c].request, behaviour)]_vars
\* One call has fallen back and ended in 500, and a later call of the same
\* request, finding the same generator still registered, has returned that
\* generator's response.
C17_Witness ==
    \E c, d \in ConcurrentCalls :
        /\ calls[c].pc = "returned"
        /\ calls[c].fellBack
        /\ calls[c].signatureFn \in HostGenerators
        /\ calls[c].result.status = 500
        /\ calls[d].pc = "returned"
        /\ calls[d].request = calls[c].request
        /\ calls[d].signatureFn = calls[c].signatureFn
        /\ calls[d].result = HostResponse(200, FALSE)
        /\ MapGet(mimeSignatures, calls[d].preferredMimeType) =
              calls[d].signatureFn

\* C18: a call awaiting a generator that never completes stays where it is
\* for ever: it returns nothing, invokes nothing more and never reaches the
\* '*' step or an error response, whatever else happens to the instance.
C18_HungGeneratorHangsCall ==
    [][\A c \in Calls :
          calls[c].awaiting = "hangs" => calls'[c] = calls[c]]_vars
\* A call is stuck on the generator it took from text/html, while a later put
\* has already replaced that entry.
C18_Witness ==
    \E c \in Calls :
        /\ calls[c].awaiting = "hangs"
        /\ calls[c].pc = "awaitSignature"
        /\ calls[c].preferredMimeType = <<"text/html">>
        /\ MapGet(mimeSignatures, <<"text/html">>) # calls[c].signatureFn
        /\ ~calls[c].fellBack
        /\ calls[c].result = Undefined

\* C19: a call in flight keeps the generator it looked up before its first
\* await: a put, also one that replaces the entry of its preferred type,
\* changes no call; the steps of one call change no other call; and when the
\* call resumes it invokes nothing that a put has registered since and moves
\* as it would if the entry of its preferred type held any other generator.
C19_InFlightCallUnaffected ==
    [][\A c \in ConcurrentCalls :
          /\ calls[c].pc # "idle"
             => /\ calls'[c].signatureFn = calls[c].signatureFn
                /\ calls'[c].preferredMimeType = calls[c].preferredMimeType
                /\ calls'[c].request = calls[c].request
                /\ calls'[c].invoked # <<>>
                   => calls'[c].invoked[1].fn = calls[c].signatureFn
          /\ (mimeSignatures' # mimeSignatures \/ lastPut' # lastPut)
             => calls'[c] = calls[c]
          /\ calls'[c] # calls[c]
             => \A d \in ConcurrentCalls \ {c} : calls'[d] = calls[d]
          /\ (calls'[c] # calls[c] /\ calls[c].pc # "idle")
             => \A g \in HostGenerators :
                   \E rejected \in BOOLEAN, settlement \in Fulfilments,
                      behaviour \in Behaviours :
                      calls'[c] =
                         Resumed(calls[c],
                                 PutMap(mimeSignatures,
                                        Str(calls[c].preferredMimeType), g),
                                 rejected, settlement, behaviour)]_vars
\* A call is suspended on g1; since its lookup a put has replaced g1 by g2,
\* and another call has run g2 and ended in 500; the first call has still
\* invoked g1 and nothing else.
C19_Witness ==
    \E c, d \in ConcurrentCalls :
        /\ calls[c].signatureFn = "g1"
        /\ calls[c].invoked = <<[fn |-> "g1", arg |-> calls[c].request]>>
        /\ calls[c].pc = "awaitSignature"
        /\ calls[c].awaiting = "settles"
        /\ lastPut.called /\ ~lastPut.threw /\ lastPut.prior = "g1"
        /\ MapGet(mimeSignatures, calls[c].preferredMimeType) = "g2"
        /\ calls[d].preferredMimeType = calls[c].preferredMimeType
        /\ calls[d].signatureFn = "g2"
        /\ calls[d].pc = "returned"
        /\ calls[d].result.status = 500

====
